---- MODULE Spec2Model ----
(***************************************************************************)
(* Pickup schedule: the status registry, the date formatter and the text   *)
(* renderer of PickupSechdule2.py, and the request handlers of app.py      *)
(* (index, add_week, remove_week) over the process-wide SCHEDULE_DATA.     *)
(***************************************************************************)
EXTENDS Integers, Sequences, FiniteSets, TLC

VARIABLES
    SCHEDULE_DATA,   \* the in-memory store: a sequence of week records
    schedule_file,   \* what save_schedule last wrote (NoFile before any save)
    request,         \* the request being answered (NoRequest while the server is idle)
    response,        \* its answer: HTTP status and the number of save_schedule calls made
    before,          \* the store as the handler of `request` found it
    pc,              \* position of the command-line / library caller
    codes,           \* argument of convert_codes_to_symbols
    format_type,     \* argument of convert_codes_to_symbols
    symbols,         \* outcome of convert_codes_to_symbols
    table            \* outcome of create_schedule_table_text

vars == <<SCHEDULE_DATA, schedule_file, request, response, before,
          pc, codes, format_type, symbols, table>>

webVars == <<SCHEDULE_DATA, schedule_file, request, response, before>>
cliVars == <<pc, codes, format_type, symbols, table>>

(***************************************************************************)
(* Bounds of the model.                                                    *)
(***************************************************************************)
MaxCodes == 3        \* longest list handed to convert_codes_to_symbols
MaxWeekOffset == 6   \* add_week is explored up to START_DATE + MaxWeekOffset weeks
MaxFields == 2       \* fields per submitted form

(***************************************************************************)
(* Configuration (PickupSechdule2.py, lines 9-64).                         *)
(***************************************************************************)
START_DATE == [year |-> 2025, month |-> 5, day |-> 12]
DAYS == <<"Monday", "Tuesday", "Wednesday", "Thursday", "Friday">>
NUM_DAYS == Len(DAYS)

TICK == 1
CROSS == 0
COMPLICATED == 2
TRAVEL == 3
OFFICE == 4
HOLIDAY == 5
UNKNOWN == 6

\* Text glyphs are written by their code point.
STATUS_DEFINITIONS ==
    (TICK :> [desc |-> "Available", text |-> "U+2713",
              html |-> "<span class='status-tick' title='Available'>&#10003;</span>"])
 @@ (CROSS :> [desc |-> "Unavailable", text |-> "U+2717",
               html |-> "<span class='status-cross' title='Unavailable'>&#10007;</span>"])
 @@ (COMPLICATED :> [desc |-> "Complicated Drop-off", text |-> "U+26A0",
               html |-> "<span class='status-complicated' title='Complicated Drop-off'>&#9888;</span>"])
 @@ (TRAVEL :> [desc |-> "Travel", text |-> "U+2708",
               html |-> "<span class='status-travel' title='Travel'>&#9992;</span>"])
 @@ (OFFICE :> [desc |-> "Office", text |-> "U+1F4BC",
               html |-> "<span class='status-office' title='Office'>&#128188;</span>"])
 @@ (HOLIDAY :> [desc |-> "Holiday/No School", text |-> "U+2600",
               html |-> "<span class='status-holiday' title='Holiday/No School'>&#9728;</span>"])
 @@ (UNKNOWN :> [desc |-> "Unknown / TBD", text |-> "?",
               html |-> "<span class='status-unknown' title='Unknown / TBD'>?</span>"])

DEFAULT_STATUS_CODE == HOLIDAY

(***************************************************************************)
(* Python values.  A per-day entry of a week is either an int or a list;   *)
(* both are kept as a tagged tuple so that the two shapes stay distinct.   *)
(***************************************************************************)
PyInt(n) == [shape |-> "int", val |-> <<n>>]
PyList(s) == [shape |-> "list", val |-> s]
IsInt(e) == e.shape = "int"
IntOf(e) == e.val[1]

(***************************************************************************)
(* datetime: calendar dates, timedelta addition and strftime.              *)
(***************************************************************************)
IsLeap(y) == (y % 4 = 0) /\ ((y % 100 # 0) \/ (y % 400 = 0))

DaysInMonth(y, m) ==
    IF m = 2 THEN (IF IsLeap(y) THEN 29 ELSE 28)
    ELSE IF m \in {4, 6, 9, 11} THEN 30 ELSE 31

DaysInYear(y) == IF IsLeap(y) THEN 366 ELSE 365

RECURSIVE DaysBeforeMonth(_, _)
DaysBeforeMonth(y, m) ==
    IF m = 1 THEN 0 ELSE DaysBeforeMonth(y, m - 1) + DaysInMonth(y, m - 1)

\* Day of the year, 1-based (tm_yday).
YearDay(d) == DaysBeforeMonth(d.year, d.month) + d.day

RECURSIVE Normalize(_, _, _)
Normalize(y, m, d) ==
    IF d > DaysInMonth(y, m)
    THEN (IF m = 12 THEN Normalize(y + 1, 1, d - DaysInMonth(y, m))
                    ELSE Normalize(y, m + 1, d - DaysInMonth(y, m)))
    ELSE [year |-> y, month |-> m, day |-> d]

\* date + timedelta(days = n), n >= 0
AddDays(date, n) == Normalize(date.year, date.month, date.day + n)

\* Days from START_DATE's 1 January to the date (both in or after that year).
RECURSIVE DaysBeforeYear(_)
DaysBeforeYear(y) ==
    IF y <= START_DATE.year THEN 0 ELSE DaysBeforeYear(y - 1) + DaysInYear(y - 1)

\* datetime.weekday(): Monday = 0.  1 January 2025 is a Wednesday.
Weekday(d) == (DaysBeforeYear(d.year) + YearDay(d) - 1 + 2) % 7

Pad2(n) == IF n < 10 THEN "0" \o ToString(n) ELSE ToString(n)

MonthAbbr == <<"Jan", "Feb", "Mar", "Apr", "May", "Jun",
               "Jul", "Aug", "Sep", "Oct", "Nov", "Dec">>

\* strftime("%d %b")
StrfDayMonth(d) == Pad2(d.day) \o " " \o MonthAbbr[d.month]

\* strftime("%W"): week of the year, Monday first, days before the first Monday in week 00
StrfWeek(d) == Pad2((YearDay(d) - 1 + 7 - Weekday(d)) \div 7)

\* isoformat of the date, as the persisted file holds it
IsoDate(d) == ToString(d.year) \o "-" \o Pad2(d.month) \o "-" \o Pad2(d.day)

\* Variant: range(1, NUM_DAYS + 1), the labels start a day late.
get_week_dates_day_late(start_date) ==
    [i \in 1..NUM_DAYS |-> StrfDayMonth(AddDays(start_date, i))]

get_week_dates(start_date) ==
    [i \in 1..NUM_DAYS |-> StrfDayMonth(AddDays(start_date, i - 1))]

(***************************************************************************)
(* convert_codes_to_symbols                                                *)
(***************************************************************************)
Raised(exc) == [raised |-> exc, value |-> <<>>, stderr |-> <<>>]
Returned(v, warned) == [raised |-> "", value |-> v, stderr |-> warned]

\* Variant: the fallback is the literal "?" and not the default code's symbol.
default_symbol_literal(fmt) == "?"

default_symbol(fmt) ==
    IF DEFAULT_STATUS_CODE \in DOMAIN STATUS_DEFINITIONS
    THEN (IF fmt = "text" THEN STATUS_DEFINITIONS[DEFAULT_STATUS_CODE].text
                          ELSE STATUS_DEFINITIONS[DEFAULT_STATUS_CODE].html)
    ELSE "?"

\* definition.get(format_type, default_symbol) of a definition that was found
symbol_of(code, fmt) ==
    IF fmt = "text" THEN STATUS_DEFINITIONS[code].text ELSE STATUS_DEFINITIONS[code].html

\* The loop of lines 123-131.  STATUS_DEFINITIONS.get of a list raises TypeError
\* (a list is unhashable); a code that is no key is warned about on stderr.
RECURSIVE convert_loop(_, _, _, _, _)
convert_loop(cs, fmt, i, acc, warned) ==
    IF i > Len(cs) THEN Returned(acc, warned)
    ELSE IF ~IsInt(cs[i]) THEN Raised("TypeError")
    ELSE IF IntOf(cs[i]) \in DOMAIN STATUS_DEFINITIONS
         THEN convert_loop(cs, fmt, i + 1,
                           Append(acc, symbol_of(IntOf(cs[i]), fmt)), warned)
         ELSE convert_loop(cs, fmt, i + 1,
                           Append(acc, default_symbol(fmt)), Append(warned, IntOf(cs[i])))

convert_codes_to_symbols(cs, fmt) ==
    IF fmt \notin {"text", "html"} THEN Raised("ValueError")
    ELSE convert_loop(cs, fmt, 1, <<>>, <<>>)

(***************************************************************************)
(* The store.  SCHEDULE_DATA as the module defines it (lines 68-103).      *)
(***************************************************************************)
Ints(s) == [i \in DOMAIN s |-> PyInt(s[i])]

Week(weeks, am, pm) ==
    [week_start |-> AddDays(START_DATE, 7 * weeks), pick_up_1 |-> Ints(am), pick_up_2 |-> Ints(pm)]

SCHEDULE_DATA_0 == <<
    Week(0, <<TICK, TICK, TICK, TICK, OFFICE>>, <<TICK, TICK, OFFICE, UNKNOWN, TICK>>),
    Week(1, <<TICK, TRAVEL, OFFICE, TICK, OFFICE>>, <<TRAVEL, TRAVEL, OFFICE, TICK, TICK>>),
    Week(2, <<TICK, TICK, TICK, HOLIDAY, HOLIDAY>>, <<TICK, TRAVEL, OFFICE, HOLIDAY, HOLIDAY>>),
    Week(3, <<OFFICE, TICK, TICK, TICK, TICK>>, <<TICK, OFFICE, TICK, TICK, UNKNOWN>>),
    Week(4, <<HOLIDAY, TICK, TICK, HOLIDAY, HOLIDAY>>, <<HOLIDAY, COMPLICATED, HOLIDAY, OFFICE, TICK>>),
    Week(5, <<TICK, TICK, TICK, TICK, HOLIDAY>>, <<TICK, TICK, OFFICE, TICK, HOLIDAY>>) >>

(***************************************************************************)
(* create_schedule_table_text, with the PrettyTable calls it makes.        *)
(***************************************************************************)
PrettyTable == [field_names |-> <<>>, rows |-> <<>>, raised |-> ""]

\* table.add_row(row, divider): a row of the wrong width is refused
add_row(t, row, divider) ==
    IF t.raised # "" THEN t
    ELSE IF Len(row) # Len(t.field_names) THEN [t EXCEPT !.raised = "ValueError"]
    ELSE [t EXCEPT !.rows = Append(@, [cells |-> row, divider |-> divider])]

rowcount(t) == Len(t.rows)

\* "-" * n, as one string
RECURSIVE Repeat(_, _)
Repeat(c, n) == IF n = 0 THEN "" ELSE c \o Repeat(c, n - 1)

separator_row == <<Repeat("-", 14)>> \o [i \in 1..NUM_DAYS |-> Repeat("-", Len(DAYS[i]) + 2)]

\* One pass of the loop of lines 144-156.
table_week(t, week_data) ==
    LET actual_dates == get_week_dates(week_data.week_start)
        pick_up_1_symbols == convert_codes_to_symbols(week_data.pick_up_1, "text")
        pick_up_2_symbols == convert_codes_to_symbols(week_data.pick_up_2, "text")
    IN  IF t.raised # "" THEN t
        ELSE IF pick_up_1_symbols.raised # "" THEN [t EXCEPT !.raised = pick_up_1_symbols.raised]
        ELSE IF pick_up_2_symbols.raised # "" THEN [t EXCEPT !.raised = pick_up_2_symbols.raised]
        ELSE LET t1 == IF rowcount(t) > 0 THEN add_row(t, separator_row, TRUE) ELSE t
                 t2 == add_row(t1, <<"Week " \o StrfWeek(week_data.week_start)>> \o actual_dates, FALSE)
                 t3 == add_row(t2, <<"Pick AM">> \o pick_up_1_symbols.value, FALSE)
             IN  add_row(t3, <<"Pick PM">> \o pick_up_2_symbols.value, FALSE)

RECURSIVE table_loop(_, _, _)
table_loop(t, data, i) ==
    IF i > Len(data) THEN t ELSE table_loop(table_week(t, data[i]), data, i + 1)

create_schedule_table_text(data) ==
    table_loop([PrettyTable EXCEPT !.field_names = <<"Week / Pick Up">> \o DAYS], data, 1)

(***************************************************************************)
(* Callers of the two pure functions.                                      *)
(***************************************************************************)
NoValue == [raised |-> "unset", value |-> <<>>, stderr |-> <<>>]
NoTable == [field_names |-> <<>>, rows |-> <<>>, raised |-> "unset"]
NoRequest == [route |-> "", index |-> 0, form |-> <<>>]
NoResponse == [status |-> 0, saves |-> 0]
NoFile == [exists |-> FALSE, weeks |-> <<>>]

\* Status codes handed to convert_codes_to_symbols: every key of the registry and
\* one integer on each side of it.
CodeSample == (DOMAIN STATUS_DEFINITIONS) \cup {-1, 7}

RECURSIVE SeqsUpTo(_, _)
SeqsUpTo(S, n) ==
    IF n = 0 THEN {<<>>}
    ELSE LET shorter == SeqsUpTo(S, n - 1)
         IN  shorter \cup {Append(s, x) : s \in shorter, x \in S}

\* The week records of a selection of positions, in store order.
RECURSIVE SelectWeeks(_, _, _)
SelectWeeks(data, keep, i) ==
    IF i > Len(data) THEN <<>>
    ELSE (IF i \in keep THEN <<data[i]>> ELSE <<>>) \o SelectWeeks(data, keep, i + 1)

WebIdle ==
    /\ schedule_file = NoFile
    /\ request = NoRequest
    /\ response = NoResponse
    /\ before = <<>>

InitConvert ==
    /\ SCHEDULE_DATA = SCHEDULE_DATA_0
    /\ WebIdle
    /\ pc = "call"
    /\ codes \in {Ints(s) : s \in SeqsUpTo(CodeSample, MaxCodes)}
    /\ format_type \in {"text", "html"}
    /\ symbols = NoValue
    /\ table = NoTable

Convert ==
    /\ pc = "call"
    /\ symbols' = convert_codes_to_symbols(codes, format_type)
    /\ pc' = "return"
    /\ UNCHANGED <<codes, format_type, table>>
    /\ UNCHANGED webVars

SpecConvert == InitConvert /\ [][Convert]_vars

\* The text renderer reads the module's SCHEDULE_DATA: the literal, or the literal with
\* some of its week records left out.
InitText ==
    /\ SCHEDULE_DATA \in {SelectWeeks(SCHEDULE_DATA_0, keep, 1) : keep \in SUBSET (1..Len(SCHEDULE_DATA_0))}
    /\ WebIdle
    /\ pc = "call"
    /\ codes = <<>>
    /\ format_type = "text"
    /\ symbols = NoValue
    /\ table = NoTable

main_text ==
    /\ pc = "call"
    /\ table' = create_schedule_table_text(SCHEDULE_DATA)
    /\ pc' = "return"
    /\ UNCHANGED <<codes, format_type, symbols>>
    /\ UNCHANGED webVars

SpecText == InitText /\ [][main_text]_vars

(***************************************************************************)
(* app.py: the request handlers.                                           *)
(***************************************************************************)
KEYS == <<"pick_up_1", "pick_up_2">>
ROLES == <<[role |-> "m", idx |-> 0], [role |-> "f", idx |-> 1]>>

\* f'w{w}_{key}_{role}{d}'
FieldName(w, key, role, d) == "w" \o ToString(w) \o "_" \o key \o "_" \o role \o ToString(d)

(* int(value) of a form value, given as its characters (blanks, signs, ASCII       *)
(* digits, letters): surrounding blanks are dropped, one sign is allowed, and what *)
(* remains must be one or more digits.                                             *)
Digit == ("0" :> 0) @@ ("1" :> 1) @@ ("2" :> 2) @@ ("3" :> 3) @@ ("4" :> 4)
      @@ ("5" :> 5) @@ ("6" :> 6) @@ ("7" :> 7) @@ ("8" :> 8) @@ ("9" :> 9)

RECURSIVE Strip(_)
Strip(cs) ==
    IF cs = <<>> THEN cs
    ELSE IF Head(cs) = " " THEN Strip(Tail(cs))
    ELSE IF cs[Len(cs)] = " " THEN Strip(SubSeq(cs, 1, Len(cs) - 1))
    ELSE cs

RECURSIVE DigitsValue(_, _)
DigitsValue(cs, acc) ==
    IF cs = <<>> THEN acc ELSE DigitsValue(Tail(cs), 10 * acc + Digit[Head(cs)])

int(value) ==
    LET body == Strip(value)
        signed == body # <<>> /\ Head(body) \in {"+", "-"}
        digits == IF signed THEN Tail(body) ELSE body
    IN  IF digits = <<>> \/ \E i \in DOMAIN digits : digits[i] \notin DOMAIN Digit
        THEN [raised |-> "ValueError", value |-> 0]
        ELSE [raised |-> "", value |-> IF signed /\ Head(body) = "-"
                                       THEN 0 - DigitsValue(digits, 0)
                                       ELSE DigitsValue(digits, 0)]

(* week[key][d][idx] = int(value), lines 28-31.  The right-hand side is evaluated   *)
(* first; ValueError and IndexError are passed over, any other exception leaves    *)
(* the handler.  d and idx are the 0-based Python indices.                         *)
assign_cell(data, w, key, d, idx, value) ==
    LET n == int(value)
        slot == IF key = "pick_up_1" THEN data[w + 1].pick_up_1 ELSE data[w + 1].pick_up_2
    IN  IF n.raised # "" THEN [data |-> data, raised |-> ""]
        ELSE IF d >= Len(slot) THEN [data |-> data, raised |-> ""]
        ELSE IF IsInt(slot[d + 1]) THEN [data |-> data, raised |-> "TypeError"]
        ELSE IF idx >= Len(slot[d + 1].val) THEN [data |-> data, raised |-> ""]
        ELSE [data |-> IF key = "pick_up_1"
                       THEN [data EXCEPT ![w + 1].pick_up_1[d + 1].val[idx + 1] = n.value]
                       ELSE [data EXCEPT ![w + 1].pick_up_2[d + 1].val[idx + 1] = n.value],
              raised |-> ""]

(* The four nested loops of lines 21-31, flattened: step p visits week p / 20,     *)
(* key (p % 20) / 10, day (p % 10) / 2 and role p % 2, in the order of the code.   *)
(* field_at[p] is the field name the step looks up in the form.                    *)
FieldsPerWeek == Len(KEYS) * NUM_DAYS * Len(ROLES)

step_week(p) == p \div FieldsPerWeek
step_key(p) == KEYS[((p % FieldsPerWeek) \div (NUM_DAYS * Len(ROLES))) + 1]
step_day(p) == (p % (NUM_DAYS * Len(ROLES))) \div Len(ROLES)
step_role(p) == ROLES[(p % Len(ROLES)) + 1]

field_at ==
    [p \in 0..((MaxWeekOffset + 2) * FieldsPerWeek - 1) |->
        FieldName(step_week(p), step_key(p), step_role(p).role, step_day(p))]

\* A step whose field is not in the form (request.form.get gives None) does nothing:
\* the loop goes on at the next step whose field is in the form.
RECURSIVE post_loop(_, _, _)
post_loop(data, form, p) ==
    LET present == {q \in p..(Len(data) * FieldsPerWeek - 1) : field_at[q] \in DOMAIN form}
    IN  IF present = {} THEN [data |-> data, raised |-> ""]
        ELSE LET q == CHOOSE q \in present : \A r \in present : q <= r
                 done == assign_cell(data, step_week(q), step_key(q), step_day(q),
                                     step_role(q).idx, form[field_at[q]])
             IN  IF done.raised # "" THEN done
                 ELSE post_loop(done.data, form, q + 1)

\* save_schedule(SCHEDULE_DATA): the whole store, dates in ISO form
save_schedule(data) ==
    [exists |-> TRUE,
     weeks |-> [i \in DOMAIN data |-> [week_start |-> IsoDate(data[i].week_start),
                                       pick_up_1 |-> data[i].pick_up_1,
                                       pick_up_2 |-> data[i].pick_up_2]]]

\* Whole weeks from START_DATE to the date.
WeekOffset(d) ==
    (DaysBeforeYear(d.year) + YearDay(d) - YearDay(START_DATE)) \div 7

(* Forms a client submits: at most MaxFields of the sampled fields, each with one  *)
(* of the sampled values.  The sample names the first week, the last week and the  *)
(* index one past the last; of a week it names the mother's Monday morning cell    *)
(* when the week starts an even number of weeks after START_DATE and the father's  *)
(* Friday afternoon cell otherwise.                                                *)
FormValues == {<<"1">>, <<"x">>}
FormWeeks(data) == {w \in {0, Len(data) - 1, Len(data)} : w >= 0}
FormField(data, w) ==
    IF w < Len(data) /\ WeekOffset(data[w + 1].week_start) % 2 = 1
    THEN FieldName(w, KEYS[2], ROLES[2].role, NUM_DAYS - 1)
    ELSE FieldName(w, KEYS[1], ROLES[1].role, 0)
FormFields(data) == {FormField(data, w) : w \in FormWeeks(data)}
RECURSIVE SubsetsUpTo(_, _)
SubsetsUpTo(S, n) ==
    IF n = 0 THEN {{}}
    ELSE LET smaller == SubsetsUpTo(S, n - 1)
         IN  smaller \cup {ns \cup {x} : ns \in smaller, x \in S}
Forms(data) == UNION {[names -> FormValues] : names \in SubsetsUpTo(FormFields(data), MaxFields)}

cliIdle ==
    /\ pc = "serve"
    /\ codes = <<>>
    /\ format_type = "text"
    /\ symbols = NoValue
    /\ table = NoTable

Init ==
    /\ SCHEDULE_DATA = SCHEDULE_DATA_0
    /\ WebIdle
    /\ cliIdle

\* GET /: the page is rendered from the store, which is left as it is
index_GET ==
    /\ request = NoRequest
    /\ request' = [route |-> "index_GET", index |-> 0, form |-> <<>>]
    /\ response' = [status |-> 200, saves |-> 0]
    /\ before' = SCHEDULE_DATA
    /\ UNCHANGED <<SCHEDULE_DATA, schedule_file>>
    /\ UNCHANGED cliVars

\* Variant: save_schedule is called before the fields are applied.
index_POST_save_first(form) ==
    /\ request = NoRequest
    /\ LET done == post_loop(SCHEDULE_DATA, form, 0)
       IN  /\ SCHEDULE_DATA' = done.data
           /\ schedule_file' = save_schedule(SCHEDULE_DATA)
           /\ response' = [status |-> IF done.raised = "" THEN 204 ELSE 500, saves |-> 1]
    /\ request' = [route |-> "index_POST", index |-> 0, form |-> form]
    /\ before' = SCHEDULE_DATA
    /\ UNCHANGED cliVars

\* POST /
index_POST(form) ==
    /\ request = NoRequest
    /\ LET done == post_loop(SCHEDULE_DATA, form, 0)
       IN  /\ SCHEDULE_DATA' = done.data
           /\ IF done.raised = ""
              THEN /\ schedule_file' = save_schedule(done.data)
                   /\ response' = [status |-> 204, saves |-> 1]
              ELSE /\ schedule_file' = schedule_file
                   /\ response' = [status |-> 500, saves |-> 0]
    /\ request' = [route |-> "index_POST", index |-> 0, form |-> form]
    /\ before' = SCHEDULE_DATA
    /\ UNCHANGED cliVars

\* Variant: range(len(DAYS) - 1) in the second comprehension.
new_week_short(data) ==
    LET last_start == IF data # <<>> THEN data[Len(data)].week_start ELSE START_DATE
    IN  [week_start |-> AddDays(last_start, 7),
         pick_up_1 |-> [i \in 1..Len(DAYS) |-> PyList(<<DEFAULT_STATUS_CODE, DEFAULT_STATUS_CODE>>)],
         pick_up_2 |-> [i \in 1..(Len(DAYS) - 1) |-> PyList(<<DEFAULT_STATUS_CODE, DEFAULT_STATUS_CODE>>)]]

\* Variant: SCHEDULE_DATA[0] where the code reads SCHEDULE_DATA[-1].
new_week_from_first(data) ==
    LET last_start == IF data # <<>> THEN data[1].week_start ELSE START_DATE
    IN  [week_start |-> AddDays(last_start, 7),
         pick_up_1 |-> [i \in 1..Len(DAYS) |-> PyList(<<DEFAULT_STATUS_CODE, DEFAULT_STATUS_CODE>>)],
         pick_up_2 |-> [i \in 1..Len(DAYS) |-> PyList(<<DEFAULT_STATUS_CODE, DEFAULT_STATUS_CODE>>)]]

new_week(data) ==
    LET last_start == IF data # <<>> THEN data[Len(data)].week_start ELSE START_DATE
    IN  [week_start |-> AddDays(last_start, 7),
         pick_up_1 |-> [i \in 1..Len(DAYS) |-> PyList(<<DEFAULT_STATUS_CODE, DEFAULT_STATUS_CODE>>)],
         pick_up_2 |-> [i \in 1..Len(DAYS) |-> PyList(<<DEFAULT_STATUS_CODE, DEFAULT_STATUS_CODE>>)]]

\* POST /add_week
add_week ==
    /\ request = NoRequest
    /\ WeekOffset(new_week(SCHEDULE_DATA).week_start) <= MaxWeekOffset
    /\ SCHEDULE_DATA' = Append(SCHEDULE_DATA, new_week(SCHEDULE_DATA))
    /\ schedule_file' = save_schedule(SCHEDULE_DATA')
    /\ request' = [route |-> "add_week", index |-> 0, form |-> <<>>]
    /\ response' = [status |-> 204, saves |-> 1]
    /\ before' = SCHEDULE_DATA
    /\ UNCHANGED cliVars

\* Variant: the guard is index < len(SCHEDULE_DATA) alone, so that pop(-1) takes the
\* last week.
pop_week_unguarded(data, index) ==
    LET at == IF index < 0 THEN Len(data) + index ELSE index
    IN  IF index < Len(data) /\ 0 <= at
        THEN [data |-> SubSeq(data, 1, at) \o SubSeq(data, at + 2, Len(data)), popped |-> TRUE]
        ELSE [data |-> data, popped |-> FALSE]

\* SCHEDULE_DATA.pop(index) under the guard of line 59; index is the 0-based Python index
pop_week(data, index) ==
    IF 0 <= index /\ index < Len(data)
    THEN [data |-> SubSeq(data, 1, index) \o SubSeq(data, index + 2, Len(data)), popped |-> TRUE]
    ELSE [data |-> data, popped |-> FALSE]

\* POST /remove_week/<index>
remove_week(index) ==
    /\ request = NoRequest
    /\ LET done == pop_week(SCHEDULE_DATA, index)
       IN  /\ SCHEDULE_DATA' = done.data
           /\ IF done.popped
              THEN /\ schedule_file' = save_schedule(done.data)
                   /\ response' = [status |-> 204, saves |-> 1]
              ELSE /\ schedule_file' = schedule_file
                   /\ response' = [status |-> 204, saves |-> 0]
    /\ request' = [route |-> "remove_week", index |-> index, form |-> <<>>]
    /\ before' = SCHEDULE_DATA
    /\ UNCHANGED cliVars

\* The response leaves the server, which is idle again: requests are handled one
\* at a time.
respond ==
    /\ request # NoRequest
    /\ request' = NoRequest
    /\ response' = NoResponse
    /\ before' = <<>>
    /\ UNCHANGED <<SCHEDULE_DATA, schedule_file>>
    /\ UNCHANGED cliVars

Next ==
    \/ index_GET
    \/ \E form \in Forms(SCHEDULE_DATA) : index_POST(form)
    \/ add_week
    \/ \E index \in -1..(Len(SCHEDULE_DATA) + 1) : remove_week(index)
    \/ respond

Spec == Init /\ [][Next]_vars

(***************************************************************************)
(* Properties.                                                             *)
(***************************************************************************)
Answered(route) == request.route = route

DayNumber(d) == DaysBeforeYear(d.year) + YearDay(d)

\* The entry (week w, key, day d) of a store; w and d are 0-based.
EntryOf(data, w, key, d) ==
    IF key = "pick_up_1" THEN data[w + 1].pick_up_1[d + 1] ELSE data[w + 1].pick_up_2[d + 1]

\* The steps of the POST loop over a store, and the cell a step names.
Steps(data) == 0..(Len(data) * FieldsPerWeek - 1)
StepEntry(data, p) == EntryOf(data, step_week(p), step_key(p), step_day(p))
StepHolds(data, p, n) ==
    /\ ~IsInt(StepEntry(data, p))
    /\ StepEntry(data, p).val[step_role(p).idx + 1] = n
StepCell(data, p) ==
    IF IsInt(StepEntry(data, p)) THEN <<"int", IntOf(StepEntry(data, p))>>
    ELSE <<"list", StepEntry(data, p).val[step_role(p).idx + 1]>>

RegistrySymbol(code, fmt) ==
    IF fmt = "text" THEN STATUS_DEFINITIONS[code].text ELSE STATUS_DEFINITIONS[code].html

(* C1: for every list of status codes and both formats, convert_codes_to_symbols   *)
(* returns one symbol per code, in order: the code's own symbol when the code is   *)
(* in STATUS_DEFINITIONS, the symbol of DEFAULT_STATUS_CODE otherwise; it does not *)
(* raise on an unknown code.                                                       *)
C1_ConvertTotal ==
    pc = "return" =>
        /\ symbols.raised = ""
        /\ Len(symbols.value) = Len(codes)
        /\ \A i \in DOMAIN codes :
              symbols.value[i] =
                  IF IntOf(codes[i]) \in DOMAIN STATUS_DEFINITIONS
                  THEN RegistrySymbol(IntOf(codes[i]), format_type)
                  ELSE RegistrySymbol(DEFAULT_STATUS_CODE, format_type)

C1_Witness ==
    /\ pc = "return"
    /\ format_type = "html"
    /\ symbols.raised = ""
    /\ Len(codes) >= 2
    /\ IntOf(codes[1]) \notin DOMAIN STATUS_DEFINITIONS
    /\ IntOf(codes[2]) = TICK
    /\ symbols.value[1] = STATUS_DEFINITIONS[HOLIDAY].html
    /\ symbols.stderr = <<IntOf(codes[1])>>

(* C2: add_week appends exactly one record at the end of the store; its start date *)
(* is the last record's start date plus 7 days when the store was non-empty and    *)
(* START_DATE itself when it was empty; every slot of it holds DEFAULT_STATUS_CODE.*)
C2_AddWeekAsClaimed ==
    Answered("add_week") =>
        /\ Len(SCHEDULE_DATA) = Len(before) + 1
        /\ SubSeq(SCHEDULE_DATA, 1, Len(before)) = before
        /\ SCHEDULE_DATA[Len(SCHEDULE_DATA)].week_start =
              IF before # <<>> THEN AddDays(before[Len(before)].week_start, 7) ELSE START_DATE
        /\ \A d \in 1..NUM_DAYS :
              /\ \A j \in DOMAIN SCHEDULE_DATA[Len(SCHEDULE_DATA)].pick_up_1[d].val :
                    SCHEDULE_DATA[Len(SCHEDULE_DATA)].pick_up_1[d].val[j] = DEFAULT_STATUS_CODE
              /\ \A j \in DOMAIN SCHEDULE_DATA[Len(SCHEDULE_DATA)].pick_up_2[d].val :
                    SCHEDULE_DATA[Len(SCHEDULE_DATA)].pick_up_2[d].val[j] = DEFAULT_STATUS_CODE

(* C3: add_week followed by remove_week at the index of the appended week gives    *)
(* back the store as it was, in length and content; remove_week with an index      *)
(* below 0 or at or above the store length leaves the store as it is.              *)
C3_AppendThenRemove ==
    /\ Answered("add_week") =>
          pop_week(SCHEDULE_DATA, Len(SCHEDULE_DATA) - 1).data = before
    /\ (Answered("remove_week") /\ request.index = Len(before) - 1 /\ before # <<>>) =>
          SCHEDULE_DATA = SubSeq(before, 1, Len(before) - 1)
    /\ (Answered("remove_week") /\ (request.index < 0 \/ request.index >= Len(before))) =>
          SCHEDULE_DATA = before

\* remove_week has just removed, at its own index, the week add_week makes of the
\* store that is left.
C3_Witness ==
    /\ Answered("remove_week")
    /\ before = Append(SCHEDULE_DATA, new_week(SCHEDULE_DATA))
    /\ request.index = Len(before) - 1
    /\ response.status = 204
    /\ SCHEDULE_DATA # <<>>

\* The value a form gives a step of the POST loop, when it gives one that int() takes.
Submitted(form, p) == field_at[p] \in DOMAIN form /\ int(form[field_at[p]]).raised = ""
SubmittedInt(form, p) == int(form[field_at[p]]).value

(* C4: a root POST never aborts because of one bad field: a field whose value is   *)
(* no integer or whose coordinate cannot be written is skipped, every other field  *)
(* of the submission that parses and is in range is applied, and the handler ends  *)
(* with its save and its success response.                                         *)
C4_PostNeverAborts ==
    Answered("index_POST") =>
        /\ response.status = 204
        /\ response.saves = 1
        /\ \A p \in Steps(before) :
              (Submitted(request.form, p) /\ ~IsInt(StepEntry(before, p)))
                  => StepHolds(SCHEDULE_DATA, p, SubmittedInt(request.form, p))

(* C5: a root POST overwrites exactly the cells named by submitted fields with     *)
(* integer values, each with the submitted integer; the number of weeks, every     *)
(* start date and every other cell stay as they were, and a field whose week index *)
(* is not below the store length changes nothing.                                  *)
C5_PostWritesExactlyNamedCells ==
    Answered("index_POST") =>
        /\ Len(SCHEDULE_DATA) = Len(before)
        /\ \A w \in DOMAIN before : SCHEDULE_DATA[w].week_start = before[w].week_start
        /\ \A p \in Steps(before) :
              IF Submitted(request.form, p)
              THEN StepHolds(SCHEDULE_DATA, p, SubmittedInt(request.form, p))
              ELSE StepCell(SCHEDULE_DATA, p) = StepCell(before, p)

C7_FiveEntriesPerSlot ==
    /\ NUM_DAYS = 5
    /\ \A w \in DOMAIN SCHEDULE_DATA :
          /\ Len(SCHEDULE_DATA[w].pick_up_1) = NUM_DAYS
          /\ Len(SCHEDULE_DATA[w].pick_up_2) = NUM_DAYS

\* A root POST has written into a store that holds a week of the literal and two
\* appended weeks.
C7_Witness ==
    /\ Answered("index_POST")
    /\ SCHEDULE_DATA # before
    /\ Len(SCHEDULE_DATA) >= 3
    /\ IsInt(SCHEDULE_DATA[1].pick_up_1[1])
    /\ ~IsInt(SCHEDULE_DATA[Len(SCHEDULE_DATA) - 1].pick_up_1[1])
    /\ Len(SCHEDULE_DATA[Len(SCHEDULE_DATA)].pick_up_2) = 5

\* Every per-day entry of the store.
AllEntries ==
    UNION {{SCHEDULE_DATA[w].pick_up_1[d] : d \in DOMAIN SCHEDULE_DATA[w].pick_up_1}
           \cup {SCHEDULE_DATA[w].pick_up_2[d] : d \in DOMAIN SCHEDULE_DATA[w].pick_up_2} :
           w \in DOMAIN SCHEDULE_DATA}

(* C9: in every reachable state all per-day entries of all weeks have one shape:   *)
(* every entry is a single integer code, or every entry is a pair of codes.        *)
C9_OneShape ==
    \/ \A e \in AllEntries : IsInt(e)
    \/ \A e \in AllEntries : ~IsInt(e) /\ Len(e.val) = 2

(* C10: week start dates are strictly increasing in store order, and every start   *)
(* date is START_DATE plus a whole number of weeks.                                *)
C10_Chronological ==
    /\ \A w \in DOMAIN SCHEDULE_DATA :
          /\ DayNumber(SCHEDULE_DATA[w].week_start) >= DayNumber(START_DATE)
          /\ (DayNumber(SCHEDULE_DATA[w].week_start) - DayNumber(START_DATE)) % 7 = 0
    /\ \A w \in 1..(Len(SCHEDULE_DATA) - 1) :
          DayNumber(SCHEDULE_DATA[w].week_start) < DayNumber(SCHEDULE_DATA[w + 1].week_start)

\* add_week has appended to a store from which a week in the middle was removed.
C10_Witness ==
    /\ Answered("add_week")
    /\ Len(SCHEDULE_DATA) >= 3
    /\ \E w \in 1..(Len(SCHEDULE_DATA) - 1) :
          DayNumber(SCHEDULE_DATA[w + 1].week_start) - DayNumber(SCHEDULE_DATA[w].week_start) > 7
    /\ SCHEDULE_DATA[Len(SCHEDULE_DATA)].week_start.month = 6

TextSymbols(entries) == [d \in DOMAIN entries |-> STATUS_DEFINITIONS[IntOf(entries[d])].text]

(* C8: create_schedule_table_text emits, for each week in store order, a header    *)
(* row (week label, then the date labels of week_start .. week_start + 4 days), a  *)
(* "Pick AM" row with the symbols of pick_up_1 and a "Pick PM" row with those of   *)
(* pick_up_2, and a divider row before every week but the first: 4n - 1 rows for   *)
(* n >= 1 weeks.                                                                   *)
C8_TextTableLayout ==
    pc = "return" =>
        LET n == Len(SCHEDULE_DATA)
        IN  /\ table.raised = ""
            /\ table.field_names = <<"Week / Pick Up", "Monday", "Tuesday", "Wednesday",
                                     "Thursday", "Friday">>
            /\ Len(table.rows) = IF n = 0 THEN 0 ELSE 4 * n - 1
            /\ \A i \in 1..n :
                  LET week == SCHEDULE_DATA[i]
                      at == 4 * (i - 1)
                  IN  /\ table.rows[at + 1] =
                            [cells |-> <<"Week " \o StrfWeek(week.week_start)>>
                                       \o [j \in 1..5 |-> StrfDayMonth(AddDays(week.week_start, j - 1))],
                             divider |-> FALSE]
                      /\ table.rows[at + 2] =
                            [cells |-> <<"Pick AM">> \o TextSymbols(week.pick_up_1), divider |-> FALSE]
                      /\ table.rows[at + 3] =
                            [cells |-> <<"Pick PM">> \o TextSymbols(week.pick_up_2), divider |-> FALSE]
                      /\ (i > 1) => table.rows[at].divider
                      /\ (week.week_start = START_DATE) =>
                            table.rows[at + 1].cells =
                                <<"Week 19", "12 May", "13 May", "14 May", "15 May", "16 May">>

C8_Witness ==
    /\ pc = "return"
    /\ SCHEDULE_DATA = SCHEDULE_DATA_0
    /\ Len(table.rows) = 23
    /\ table.rows[4].divider
    /\ table.rows[2].cells = <<"Pick AM", "U+2713", "U+2713", "U+2713", "U+2713", "U+1F4BC">>
    /\ table.rows[21].cells[1] = "Week 24"

====
